---- MODULE Spec2Model ----
(***************************************************************************)
(* Multi-provider completion adapter of MineChatWeb.                       *)
(*   backend/app/services/ai_providers.py  AIProviderService               *)
(*   backend/app/api/v1/chat.py            chat_completion, tool loop,     *)
(*                                          websocket_chat                 *)
(*   backend/app/services/plugin_executor.py PluginExecutor                *)
(*                                                                         *)
(* Texts are modelled by the set of phrases they contain (lower-cased, as  *)
(* the code lower-cases before matching); a Python None is the empty       *)
(* sequence and a present value v is <<v>>.                                *)
(***************************************************************************)
EXTENDS Integers, Sequences, FiniteSets, TLC

\* ---------------------------------------------------------------- bounds
\* longest OpenAI Responses `output` array a mocked backend returns
MaxOutputItems == 2
\* most provider events one streaming response delivers
MaxEvents == 4
\* most remote fetches of the capability table that are counted
MaxFetches == 2
\* longest user message text, in characters
MaxTextLen == 3
\* most tool configurations one request declares
MaxTools == 2
MaxMessages == 2

\* ------------------------------------------------------ program constants
max_retries == 2
\* (mutant) one round fewer
max_iterations_nine == 10 - 1
max_iterations == 10
max_poll_retries == 120
default_timeout == 60
responses_api_timeout == 180
config_timeout == 30

VARIABLES
    gc_pc,        \* get_completion: "idle", "running", "returned", "raised"
    gc_provider,  \* provider argument of the running call
    gc_attempt,   \* loop variable `attempt`
    gc_calls,     \* invocations of the provider SDK by this call
    gc_sleeps,    \* arguments of asyncio.sleep, in order
    gc_outcomes,  \* class of what the SDK did at each invocation, in order
    gc_response,  \* <<response>> the SDK returned to this call
    gc_result,    \* <<CompletionResult>> once returned
    gc_error      \* <<error>> once raised

gcVars == <<gc_pc, gc_provider, gc_attempt, gc_calls, gc_sleeps, gc_outcomes,
            gc_response, gc_result, gc_error>>

VARIABLES
    http_pc,           \* chat_completion: "idle", "initial", "loop", "resubmit",
                       \*   "break", "responded", "failed"
    req_provider,      \* request.provider
    req_tools,         \* request.tools is non-empty
    iteration,         \* loop variable of _handle_function_calling
    current_response,  \* <<current_response>>
    n_messages,        \* len(current_messages)
    appended,          \* the messages the current iteration appended to
                       \*   current_messages, in order
    completions,       \* calls of get_completion by this request
    all_pending,       \* every get_completion call so far returned a result
                       \*   that carried tool calls
    last_result,       \* <<result of the latest get_completion that returned>>
    http_response      \* <<what _handle_function_calling / the handler returns>>

chatVars == <<http_pc, req_provider, req_tools, iteration, current_response,
              n_messages, appended, completions, all_pending, last_result,
              http_response>>

VARIABLES
    st_pc,        \* stream_completion: "idle", "open" (iterating the provider
                  \*   stream), "fallback" (awaiting get_completion), "closed"
                  \*   (generator exhausted), "raised" (exception reached the
                  \*   consumer)
    st_provider,  \* provider argument
    st_model,     \* model argument
    st_thinking,  \* thinking_mode argument
    st_path,      \* "stream" or "fallback": the branch stream_completion took
    st_events,    \* provider events iterated so far, in order
    st_citations, \* current_citations of _anthropic_stream_completion
    st_chunks,    \* chunks yielded to the consumer, in order
    st_failure    \* <<chunks yielded before the provider call failed>>

streamVars == <<st_pc, st_provider, st_model, st_thinking, st_path, st_events,
                st_citations, st_chunks, st_failure>>

VARIABLES
    cfg_config,   \* _models_config of each AIProviderService: <<>> is None
    cfg_pc,       \* each caller: "idle", "fetching" (awaiting client.get),
                  \*   "closing" (leaving `async with`), "answered"
    cfg_svc,      \* the service each caller uses
    cfg_query,    \* the capability query each caller runs
    cfg_loaded,   \* <<what _load_models_config returned to the caller>>
    cfg_answer,   \* <<the query's answer>>
    cfg_raised,   \* whether the query raised to its caller
    cfg_fetches,  \* remote GETs of the table issued by the process
    cfg_writes    \* assignments to _models_config, in order: <<service, value>>

cfgVars == <<cfg_config, cfg_pc, cfg_svc, cfg_query, cfg_loaded, cfg_answer,
             cfg_raised, cfg_fetches, cfg_writes>>

VARIABLES
    rq_pc,        \* one provider call: "idle", "sent" (request issued),
                  \*   "done" (response normalized)
    rq_provider,  \* provider of the call
    rq_model,     \* model argument
    rq_thinking,  \* thinking_mode argument
    rq_stream,    \* whether the streaming method issues the call
    rq_text,      \* content of the single user message, as characters
    rq_tools,     \* tools argument
    rq_base_url,  \* base_url of the caller's request
    rq_client,    \* base_url the OpenAI-compatible client is constructed with
    rq_payload,   \* what is sent: input text, role, mcp_servers, timeout
    rq_result     \* <<normalized completion result>>

rqVars == <<rq_pc, rq_provider, rq_model, rq_thinking, rq_stream, rq_text,
            rq_tools, rq_base_url, rq_client, rq_payload, rq_result>>

extVars == <<cfgVars, rqVars>>

VARIABLES
    ws_pc,        \* websocket_chat: "waiting" (receive_text), "streaming"
                  \*   (inside `async for chunk`), "closed" (handler returned)
    ws_connected, \* whether the client is still connected
    ws_active,    \* whether the socket is in manager.active_connections
    ws_taken,     \* chunks of the response the loop body has handled
    ws_delivered, \* messages sent to the socket, in order, with their origin
    ws_cut        \* <<messages delivered when the client disconnected or a
                  \*   send first failed>>

wsVars == <<ws_pc, ws_connected, ws_active, ws_taken, ws_delivered, ws_cut>>

VARIABLES
    ss_inbox,     \* client messages not yet returned by receive_text, in order
    ss_sent,      \* number of messages the client has sent on the socket
    ss_current,   \* number of the message the handler read last
    ss_log        \* what the handler did on the socket, in order: messages
                  \*   read, messages sent, responses finished

ssVars == <<ss_inbox, ss_sent, ss_current, ss_log>>

VARIABLES
    dr_pc,        \* background processing of the task: "none" (no task yet),
                  \*   "create" (awaiting responses.create), "poll" (at the
                  \*   `while` of _wait_for_response_completion), "done"
    dr_storage,   \* keys of _tasks_storage
    dr_status,    \* task.status
    dr_result,    \* task.result: <<>> (None) or <<text>>
    dr_response,  \* the response object the polling loop holds
    retry_count,  \* retry_count of the polling loop
    dr_stopped,   \* <<task.result when stop_task last returned True>>
    dr_deleted    \* whether delete_task has returned True

drVars == <<dr_pc, dr_storage, dr_status, dr_result, dr_response, retry_count,
            dr_stopped, dr_deleted>>

vars == <<gcVars, chatVars, streamVars, extVars, wsVars, ssVars, drVars>>

\* ------------------------------------------------------------- providers
Providers == {"openai", "anthropic", "google", "openai_compatible"}

\* provider ids a caller may pass (the last one is not supported)
ProviderIds == Providers \cup {"mistral"}

\* ---------------------------------------------------------------- errors
\* An exception: its Python class and the phrases str(e).lower() contains.
Err(cls, text) == [cls |-> cls, text |-> text]

\* What an SDK call can raise (asyncio.wait_for raises TimeoutError with an
\* empty message; the SDK classes are the ones the except clauses name).
SdkErrors == {
    Err("TimeoutError", {}),
    Err("AuthenticationError", {"incorrect api key provided", "api key", "invalid"}),
    Err("AuthenticationError", {"authentication"}),
    Err("RateLimitError", {"rate limit"}),
    Err("InternalServerError", {"internal server error"}),
    Err("APIConnectionError", {"connection error"}) }

auth_keywords == {"authentication", "authorization", "api key", "invalid"}

\* any(keyword in str(e).lower() for keyword in [...])
IsAuthText(text) == text \cap auth_keywords # {}

\* except-clauses of _openai_responses_completion
OpenAIResponsesRaise(e) ==
    Err("Exception", {"openai responses api call failed"} \cup e.text)

\* except-clauses of _anthropic_completion
AnthropicRaise(e) ==
    IF e.cls = "AuthenticationError"
    THEN Err("Exception", {"anthropic api secret invalid-zh", "check your api secret-zh"})
    ELSE IF e.cls = "RateLimitError"
    THEN Err("Exception", {"anthropic api rate too high-zh", "retry later-zh"})
    ELSE Err("Exception", {"anthropic api call failed"} \cup e.text)

\* except-clause of _google_completion
GoogleRaise(e) ==
    Err("Exception", {"google api call failed"} \cup e.text)

\* except-clauses of _openai_compatible_completion
OpenAICompatibleRaise(e) ==
    IF e.cls = "AuthenticationError"
    THEN Err("Exception", {"compatible api secret invalid-zh", "check your api secret-zh"})
    ELSE IF e.cls = "RateLimitError"
    THEN Err("Exception", {"compatible api rate too high-zh", "retry later-zh"})
    ELSE IF e.cls = "InternalServerError"
    THEN Err("Exception", {"compatible api unavailable-zh", "retry later-zh"})
    ELSE Err("Exception", {"compatible api call failed"} \cup e.text)

\* the exception a provider method raises when its SDK call raises e
ProviderRaise(provider, e) ==
    CASE provider = "openai" -> OpenAIResponsesRaise(e)
      [] provider = "anthropic" -> AnthropicRaise(e)
      [] provider = "google" -> GoogleRaise(e)
      [] provider = "openai_compatible" -> OpenAICompatibleRaise(e)

\* raise ValueError(f"unsupported provider: {provider}")
UnsupportedProviderError == Err("ValueError", {"unsupported provider-zh"})

\* Exception(f"{provider} API call timed out, retried {max_retries} times, retry later")
TimeoutExhaustedError ==
    Err("Exception", {"api call timed out-zh", "retried max_retries times-zh", "retry later-zh"})

\* ------------------------------------------------------- provider output
\* A tool call as the canonical result carries it: arguments is "json" when
\* json.loads accepts the string and "malformed" when it raises.
ToolCall(id, type, name, arguments) ==
    [id |-> id, type |-> type, name |-> name, arguments |-> arguments]

NoCall == ToolCall("", "", "", "")

\* One segment of the OpenAI Responses `output` array.
Item(type, text, call, error, approval) ==
    [type |-> type, text |-> text, call |-> call, error |-> error,
     approval |-> approval]

OutputItems == {
    Item("message", "hi", NoCall, FALSE, FALSE),
    Item("reasoning", "why", NoCall, FALSE, FALSE),
    Item("image_generation_call", "ig_1", NoCall, FALSE, FALSE),
    Item("image_generation_call", "ig_2", NoCall, FALSE, FALSE),
    Item("function_call", "", ToolCall("call_1", "function", "get_weather", "json"), FALSE, FALSE),
    Item("function_call", "", ToolCall("call_2", "function", "lookup", "malformed"), FALSE, FALSE),
    Item("mcp_call", "", NoCall, FALSE, FALSE),
    Item("mcp_call", "", NoCall, TRUE, FALSE),
    Item("mcp_call", "", NoCall, FALSE, TRUE),
    Item("mcp_approval_request", "", NoCall, FALSE, FALSE) }

SeqsUpTo(S, n) == UNION { [1..k -> S] : k \in 0..n }

\* message of a canonical Choice
Message(content, tool_calls, reasoning, image_generations, mcp_calls, mcp_approval_requests) ==
    [role |-> "assistant", content |-> content, tool_calls |-> tool_calls,
     reasoning |-> reasoning, image_generations |-> image_generations,
     mcp_calls |-> mcp_calls, mcp_approval_requests |-> mcp_approval_requests]

Choice(message, finish_reason) ==
    [message |-> message, finish_reason |-> finish_reason]

CompletionResult(choices) == [choices |-> choices]

\* (mutant) only the latest image-generation segment is kept
KeepLastImage(image_generations, item) == <<item>>

\* `image_generations.append(image_gen)`
AppendImage(image_generations, item) == Append(image_generations, item)

\* the loop body of _convert_responses_to_chat_format: acc after `item`
ConvertItem(acc, item) ==
    CASE item.type = "reasoning" ->
           [acc EXCEPT !.reasoning = item.text]
      [] item.type = "image_generation_call" ->
           [acc EXCEPT !.image_generations = AppendImage(@, item)]
      [] item.type = "function_call" ->
           [acc EXCEPT !.tool_calls = Append(@, item.call),
                       !.finish_reason = "tool_calls"]
      [] item.type = "custom_tool_call" ->
           [acc EXCEPT !.finish_reason = "tool_calls"]
      [] item.type = "mcp_list_tools" -> acc
      [] item.type = "mcp_call" ->
           [acc EXCEPT !.mcp_calls = Append(@, item),
                       !.finish_reason =
                           IF item.error THEN "mcp_error"
                           ELSE IF item.approval THEN "approval_required"
                           ELSE "mcp_tool_calls"]
      [] item.type = "mcp_approval_request" ->
           [acc EXCEPT !.mcp_approval_requests = Append(@, item),
                       !.finish_reason = "approval_required"]
      [] item.type = "message" ->
           [acc EXCEPT !.content = item.text]
      [] OTHER -> acc

RECURSIVE ConvertItems(_, _)
ConvertItems(acc, output) ==
    IF output = <<>> THEN acc
    ELSE ConvertItems(ConvertItem(acc, Head(output)), Tail(output))

\* _convert_responses_to_chat_format on a Responses API result
_convert_responses_to_chat_format(output) ==
    LET start == [content |-> "", finish_reason |-> "stop", tool_calls |-> <<>>,
                  reasoning |-> "", image_generations |-> <<>>,
                  mcp_calls |-> <<>>, mcp_approval_requests |-> <<>>]
        acc == ConvertItems(start, output)
    IN  CompletionResult(<<Choice(
            Message(acc.content, acc.tool_calls, acc.reasoning,
                    acc.image_generations, acc.mcp_calls, acc.mcp_approval_requests),
            acc.finish_reason)>>)

\* _map_anthropic_stop_reason: mapping.get(stop_reason, "stop")
_map_anthropic_stop_reason(stop_reason) ==
    CASE stop_reason = "end_turn" -> "stop"
      [] stop_reason = "max_tokens" -> "length"
      [] stop_reason = "tool_use" -> "tool_calls"
      [] stop_reason = "mcp_tool_use" -> "mcp_tool_calls"
      [] OTHER -> "stop"

\* An Anthropic Messages response: text of its text blocks, its tool_use
\* blocks and stop_reason ("None" when the attribute is missing).
AnthropicResponse(text, tool_uses, stop_reason) ==
    [text |-> text, tool_uses |-> tool_uses, stop_reason |-> stop_reason]

AnthropicResponses ==
    { AnthropicResponse("hi", <<>>, sr) :
        sr \in {"end_turn", "max_tokens", "stop_sequence", "mcp_tool_use", "None"} }
    \cup
    { AnthropicResponse("", tu, "tool_use") :
        tu \in { <<ToolCall("toolu_1", "function", "get_weather", "json")>>,
                 <<ToolCall("toolu_1", "function", "lookup", "json"),
                   ToolCall("toolu_2", "function", "get_weather", "json")>> } }

\* _convert_anthropic_response_to_openai_format (arguments = json.dumps(input))
_convert_anthropic_response_to_openai_format(r) ==
    CompletionResult(<<Choice(
        Message(r.text, r.tool_uses, "", <<>>, <<>>, <<>>),
        _map_anthropic_stop_reason(r.stop_reason))>>)

\* _convert_gemini_finish_reason: mapping.get(str(finish_reason), "stop")
_convert_gemini_finish_reason(finish_reason) ==
    CASE finish_reason = "STOP" -> "stop"
      [] finish_reason = "MAX_TOKENS" -> "length"
      [] finish_reason = "SAFETY" -> "content_filter"
      [] finish_reason = "RECITATION" -> "content_filter"
      [] finish_reason = "OTHER" -> "stop"
      [] OTHER -> "stop"

\* A Gemini response with one candidate: its text, function_call parts and
\* finish_reason.
GeminiResponse(text, function_calls, finish_reason) ==
    [text |-> text, function_calls |-> function_calls, finish_reason |-> finish_reason]

GeminiResponses ==
    { GeminiResponse("hi", <<>>, fr) :
        fr \in {"STOP", "MAX_TOKENS", "SAFETY", "FinishReason.STOP"} }
    \cup
    { GeminiResponse("", <<ToolCall("call_h", "function", "get_weather", "json")>>, "STOP") }

\* _convert_gemini_response_to_openai_format
_convert_gemini_response_to_openai_format(r) ==
    CompletionResult(<<Choice(
        Message(r.text, r.function_calls, "", <<>>, <<>>, <<>>),
        _convert_gemini_finish_reason(r.finish_reason))>>)

\* A Chat Completions response of an OpenAI-compatible server; the method
\* returns response.model_dump() unchanged ("null" is a JSON null).
CompatibleResponses ==
    { CompletionResult(<<Choice(Message("hi", <<>>, "", <<>>, <<>>, <<>>), fr)>>) :
        fr \in {"stop", "length", "content_filter", "null"} }
    \cup
    { CompletionResult(<<Choice(Message("", tc, "", <<>>, <<>>, <<>>), "tool_calls")>>) :
        tc \in { <<ToolCall("call_1", "function", "get_weather", "json")>>,
                 <<ToolCall("call_1", "custom", "get_weather", "json"),
                   ToolCall("call_2", "function", "get_weather", "malformed")>> } }

\* what the SDK of `provider` may return
SdkResponses(provider) ==
    CASE provider = "openai" -> SeqsUpTo(OutputItems, MaxOutputItems)
      [] provider = "anthropic" -> AnthropicResponses
      [] provider = "google" -> GeminiResponses
      [] provider = "openai_compatible" -> CompatibleResponses

\* the canonical result a provider method returns for SDK response r
ProviderReturn(provider, r) ==
    CASE provider = "openai" -> _convert_responses_to_chat_format(r)
      [] provider = "anthropic" -> _convert_anthropic_response_to_openai_format(r)
      [] provider = "google" -> _convert_gemini_response_to_openai_format(r)
      [] provider = "openai_compatible" -> r

\* ------------------------------------------------------- get_completion
\* what one SDK invocation does: returns response r or raises e
SdkOk(r) == [cls |-> "ok", text |-> {}, response |-> <<r>>]
SdkFail(e) == [cls |-> e.cls, text |-> e.text, response |-> <<>>]

SdkOutcomes(provider) ==
    IF provider \in Providers
    THEN { SdkOk(r) : r \in SdkResponses(provider) } \cup { SdkFail(e) : e \in SdkErrors }
    ELSE {}

\* The except clauses of get_completion for exception e caught at `attempt`:
\* sleep 2 ** attempt and continue, or raise.
\* (mutant) a constant pause between attempts
RetryFixedSleep(attempt) == [retry |-> TRUE, sleep |-> 1, raise |-> <<>>]

Retry(attempt) == [retry |-> TRUE, sleep |-> 2 ^ attempt, raise |-> <<>>]
Raise(e) == [retry |-> FALSE, sleep |-> 0, raise |-> <<e>>]

\* (mutant) only the TimeoutError clause retries
ExceptHandlerTimeoutOnly(e, attempt) ==
    IF e.cls = "TimeoutError"
    THEN IF attempt < max_retries THEN Retry(attempt)
         ELSE Raise(TimeoutExhaustedError)
    ELSE Raise(e)

\* (mutant) the last attempt's exception is swallowed like the earlier ones
ExceptHandlerAlwaysRetry(e, attempt) ==
    IF e.cls # "TimeoutError" /\ IsAuthText(e.text) THEN Raise(e) ELSE Retry(attempt)

ExceptHandler(e, attempt) ==
    IF e.cls = "TimeoutError"
    THEN IF attempt < max_retries THEN Retry(attempt)
         ELSE Raise(TimeoutExhaustedError)
    ELSE IF IsAuthText(e.text) THEN Raise(e)
    ELSE IF attempt < max_retries THEN Retry(attempt)
    ELSE Raise(e)

\* entry of get_completion(provider, ...)
GcBegin(provider) ==
    /\ gc_pc' = "running"
    /\ gc_provider' = provider
    /\ gc_attempt' = 0
    /\ gc_calls' = 0
    /\ gc_sleeps' = <<>>
    /\ gc_outcomes' = <<>>
    /\ gc_response' = <<>>
    /\ gc_result' = <<>>
    /\ gc_error' = <<>>

\* the except clause taken for exception e
GcCatch(e) ==
    LET h == ExceptHandler(e, gc_attempt)
    IN  /\ gc_result' = gc_result
        /\ IF h.retry
           THEN /\ gc_sleeps' = Append(gc_sleeps, h.sleep)
                /\ gc_attempt' = gc_attempt + 1
                /\ gc_pc' = "running"
                /\ gc_error' = gc_error
           ELSE /\ gc_sleeps' = gc_sleeps
                /\ gc_attempt' = gc_attempt
                /\ gc_pc' = "raised"
                /\ gc_error' = h.raise

\* one iteration of `for attempt in range(max_retries + 1)` for a supported
\* provider whose SDK call does o
GcAttempt(o) ==
    /\ gc_pc = "running"
    /\ gc_provider \in Providers
    /\ gc_attempt <= max_retries
    /\ gc_calls' = gc_calls + 1
    /\ gc_outcomes' = Append(gc_outcomes, o.cls)
    /\ gc_provider' = gc_provider
    /\ gc_response' = o.response
    /\ IF o.cls = "ok"
       THEN /\ gc_pc' = "returned"
            /\ gc_result' = <<ProviderReturn(gc_provider, o.response[1])>>
            /\ UNCHANGED <<gc_attempt, gc_sleeps, gc_error>>
       ELSE GcCatch(ProviderRaise(gc_provider, o))

\* one iteration for a provider id no branch matches: raise ValueError
GcAttemptUnsupported ==
    /\ gc_pc = "running"
    /\ gc_provider \notin Providers
    /\ gc_attempt <= max_retries
    /\ UNCHANGED <<gc_calls, gc_outcomes, gc_provider, gc_response>>
    /\ GcCatch(UnsupportedProviderError)

GcInit ==
    /\ gc_pc = "idle"
    /\ gc_provider = "openai"
    /\ gc_attempt = 0
    /\ gc_calls = 0
    /\ gc_sleeps = <<>>
    /\ gc_outcomes = <<>>
    /\ gc_response = <<>>
    /\ gc_result = <<>>
    /\ gc_error = <<>>

\* ---------------------------------------------- direct calls of the adapter
\* a caller invokes get_completion
Call(provider) ==
    /\ gc_pc = "idle"
    /\ GcBegin(provider)

Attempt == \E o \in SdkOutcomes(gc_provider) : GcAttempt(o)


\* ------------------------------------------------------- tool-call loop
\* PluginExecutor.execute_function_call: the built-in functions succeed, any
\* other name gives {"success": False, "error": ...}; it never raises.
BuiltinFunctions == {"get_current_time", "calculate", "get_weather"}

execute_function_call(function_name) ==
    IF function_name \in BuiltinFunctions
    THEN [success |-> TRUE, text |-> "result"]
    ELSE [success |-> FALSE, text |-> "Unknown function"]

\* PluginExecutor.format_tool_result_for_ai
format_tool_result_for_ai(tool_result) ==
    IF tool_result.success THEN "key: value" ELSE "error-zh: Unknown function"

\* hasattr(ai_service, '_is_responses_api_model'): the service has no such
\* attribute
HasResponsesApiModelAttr == FALSE

\* the entry appended to function_results for call id `id` with text `text`
FunctionResult(provider, id, text) ==
    IF provider = "openai" /\ HasResponsesApiModelAttr
    THEN [role |-> "", type |-> "function_call_output", tool_call_id |-> id,
          content |-> text]
    ELSE [role |-> "tool", type |-> "", tool_call_id |-> id, content |-> text]

\* body of `for tool_call in tool_calls`, with its except clause
HandleToolCall(provider, tool_call) ==
    IF tool_call.type = "function"
    THEN IF tool_call.arguments = "malformed"
         THEN \* json.loads raises; except Exception
              FunctionResult(provider, tool_call.id, "Error executing function")
         ELSE FunctionResult(provider, tool_call.id,
                  format_tool_result_for_ai(execute_function_call(tool_call.name)))
    ELSE FunctionResult(provider, tool_call.id, "Error: Unsupported tool call type")

\* (mutant) the first call that fails ends the round
RECURSIVE FunctionResultsAbort(_, _)
FunctionResultsAbort(provider, tool_calls) ==
    IF tool_calls = <<>> THEN <<>>
    ELSE IF Head(tool_calls).type = "function" /\ Head(tool_calls).arguments = "malformed"
    THEN <<>>
    ELSE <<HandleToolCall(provider, Head(tool_calls))>>
             \o FunctionResultsAbort(provider, Tail(tool_calls))

\* function_results after the for loop over tool_calls
RECURSIVE FunctionResults(_, _)
FunctionResults(provider, tool_calls) ==
    IF tool_calls = <<>> THEN <<>>
    ELSE <<HandleToolCall(provider, Head(tool_calls))>>
             \o FunctionResults(provider, Tail(tool_calls))

AssistantMessage(message) ==
    [role |-> "assistant", type |-> "", tool_call_id |-> "", content |-> message.content]

ToolCallsOf(response) == response.choices[1].message.tool_calls

\* `message.get("tool_calls") or choice.get("finish_reason") == "tool_calls"`
WantsTools(response) ==
    ToolCallsOf(response) # <<>> \/ response.choices[1].finish_reason = "tool_calls"

GcReset ==
    /\ gc_pc' = "idle"
    /\ gc_provider' = "openai"
    /\ gc_attempt' = 0
    /\ gc_calls' = 0
    /\ gc_sleeps' = <<>>
    /\ gc_outcomes' = <<>>
    /\ gc_response' = <<>>
    /\ gc_result' = <<>>
    /\ gc_error' = <<>>

ChatInit ==
    /\ http_pc = "idle"
    /\ req_provider = "openai"
    /\ req_tools = FALSE
    /\ iteration = 0
    /\ current_response = <<>>
    /\ n_messages = 0
    /\ appended = <<>>
    /\ completions = 0
    /\ all_pending = TRUE
    /\ last_result = <<>>
    /\ http_response = <<>>

\* chat_completion receives a request and awaits the initial get_completion
ChatRequest(provider, tools) ==
    /\ UNCHANGED <<streamVars, extVars, wsVars, ssVars, drVars>>
    /\ http_pc = "idle"
    /\ gc_pc = "idle"
    /\ http_pc' = "initial"
    /\ req_provider' = provider
    /\ req_tools' = tools
    /\ n_messages' = 1
    /\ completions' = 1
    /\ GcBegin(provider)
    /\ UNCHANGED <<iteration, current_response, appended, all_pending,
                   last_result, http_response>>

\* chat_completion after the initial get_completion: fail, answer, or enter
\* _handle_function_calling
ChatInitialResponse ==
    /\ UNCHANGED <<streamVars, extVars, wsVars, ssVars, drVars>>
    /\ http_pc = "initial"
    /\ gc_pc \in {"returned", "raised"}
    /\ GcReset
    /\ UNCHANGED <<req_provider, req_tools, n_messages, appended, completions>>
    /\ IF gc_pc = "raised"
       THEN /\ http_pc' = "failed"
            /\ all_pending' = FALSE
            /\ UNCHANGED <<iteration, current_response, last_result, http_response>>
       ELSE /\ all_pending' = (all_pending /\ ToolCallsOf(gc_result[1]) # <<>>)
            /\ last_result' = gc_result
            /\ IF req_tools /\ WantsTools(gc_result[1])
               THEN /\ http_pc' = "loop"
                    /\ iteration' = 0
                    /\ current_response' = gc_result
                    /\ UNCHANGED http_response
               ELSE /\ http_pc' = "responded"
                    /\ http_response' = gc_result
                    /\ UNCHANGED <<iteration, current_response>>

\* one iteration of the for loop up to the call of get_completion: append the
\* assistant message and the function results, resubmit
ToolRound ==
    /\ UNCHANGED <<streamVars, extVars, wsVars, ssVars, drVars>>
    /\ http_pc = "loop"
    /\ iteration < max_iterations
    /\ ToolCallsOf(current_response[1]) # <<>>
    /\ LET message == current_response[1].choices[1].message
           new == <<AssistantMessage(message)>>
                      \o FunctionResults(req_provider, message.tool_calls)
       IN  /\ appended' = new
           /\ n_messages' = n_messages + Len(new)
    /\ completions' = completions + 1
    /\ GcBegin(req_provider)
    /\ http_pc' = "resubmit"
    /\ UNCHANGED <<req_provider, req_tools, iteration, current_response,
                   all_pending, last_result, http_response>>

\* (mutant) a failed resubmission goes round the loop again
ExceptRetry == "loop"

\* `except Exception as e: logger.error(...); break` around the resubmission
ExceptBreak == "break"

\* the rest of the iteration: take the new response, or break
ToolReceive ==
    /\ UNCHANGED <<streamVars, extVars, wsVars, ssVars, drVars>>
    /\ http_pc = "resubmit"
    /\ gc_pc \in {"returned", "raised"}
    /\ GcReset
    /\ UNCHANGED <<req_provider, req_tools, n_messages, appended, completions,
                   http_response>>
    /\ IF gc_pc = "raised"
       THEN /\ http_pc' = ExceptBreak
            /\ all_pending' = FALSE
            /\ UNCHANGED <<iteration, current_response, last_result>>
       ELSE /\ current_response' = gc_result
            /\ last_result' = gc_result
            /\ all_pending' = (all_pending /\ ToolCallsOf(gc_result[1]) # <<>>)
            /\ IF ~ WantsTools(gc_result[1])
               THEN http_pc' = "break" /\ UNCHANGED iteration
               ELSE http_pc' = "loop" /\ iteration' = iteration + 1

\* the loop ends (break, no tool calls, or range exhausted):
\* return current_response
ToolReturn ==
    /\ UNCHANGED <<streamVars, extVars, wsVars, ssVars, drVars>>
    /\ \/ http_pc = "break"
       \/ /\ http_pc = "loop"
          /\ (iteration = max_iterations \/ ToolCallsOf(current_response[1]) = <<>>)
    /\ http_pc' = "responded"
    /\ http_response' = current_response
    /\ UNCHANGED <<gcVars, req_provider, req_tools, iteration, current_response,
                   n_messages, appended, completions, all_pending, last_result>>

\* the SDK behaviours exercised under the tool-call loop
ChatItems == { i \in OutputItems : i.type \in {"message", "function_call"} }

ChatSdkErrors == { e \in SdkErrors : e.cls \in {"TimeoutError", "AuthenticationError"} }

ChatSdkOutcomes(provider) ==
    IF provider \notin Providers THEN {}
    ELSE { SdkFail(e) : e \in ChatSdkErrors }
         \cup { SdkOk(r) : r \in IF provider = "openai"
                                 THEN SeqsUpTo(ChatItems, MaxOutputItems)
                                 ELSE SdkResponses(provider) }

ChatAttempt == \E o \in ChatSdkOutcomes(gc_provider) : GcAttempt(o)

\* ------------------------------------------------------ stream_completion
StreamInit ==
    /\ st_pc = "idle"
    /\ st_provider = "openai"
    /\ st_model = "gpt-4o"
    /\ st_thinking = FALSE
    /\ st_path = "stream"
    /\ st_events = <<>>
    /\ st_citations = <<>>
    /\ st_chunks = <<>>
    /\ st_failure = <<>>

Models == {"gpt-4o", "o1"}

\* What _load_models_config gives: the parsed remote table (the OpenAI
\* models it flags supports_streaming, and those with api_type "responses";
\* wellformed is FALSE for JSON that parses but is not the expected object),
\* or an exception.
ConfigLoaded(streaming, responses) ==
    [ok |-> TRUE, wellformed |-> TRUE, streaming |-> streaming, responses |-> responses]
ConfigMalformed == [ok |-> TRUE, wellformed |-> FALSE, streaming |-> {}, responses |-> {}]
ConfigFailed == [ok |-> FALSE, wellformed |-> FALSE, streaming |-> {}, responses |-> {}]
RemoteTables == { ConfigLoaded({"gpt-4o"}, {"gpt-4o", "o1"}), ConfigLoaded({}, {}),
                  ConfigMalformed }
ConfigLoads == {ConfigFailed} \cup RemoteTables

\* (mutant) _supports_streaming whose except clause re-raises
SupportsStreamingRaises(load, provider, model) ==
    IF load.ok /\ load.wellformed
    THEN <<provider = "openai" /\ model \in load.streaming>>
    ELSE <<>>

\* _supports_streaming as a call: <<answer>>, or <<>> when it raises
SupportsStreamingCall(load, provider, model) ==
    IF load.ok /\ load.wellformed
    THEN <<provider = "openai" /\ model \in load.streaming>>
    ELSE IF provider = "openai"
         THEN <<model \notin {"o1", "o1-preview", "o1-mini", "o3", "o3-mini", "o4-mini"}>>
         ELSE <<FALSE>>

\* _supports_streaming
_supports_streaming(load, provider, model) ==
    SupportsStreamingCall(load, provider, model)[1]

fallback_models == {
    "chatgpt-4o-latest", "gpt-4o-realtime-preview",
    "gpt-4o-realtime-preview-2024-10-01",
    "gpt-5", "gpt-5-mini", "gpt-5-nano", "gpt-5-chat-latest",
    "gpt-4o", "gpt-4o-mini", "gpt-4.1", "gpt-4.1-mini", "gpt-4.1-nano",
    "o1", "o1-preview", "o1-mini", "o3", "o3-mini", "o4-mini" }

\* _is_openai_responses_api as a call: <<answer>>, or <<>> when it raises
IsOpenAIResponsesApiCall(load, model) ==
    IF load.ok /\ load.wellformed
    THEN <<model \in load.responses>>
    ELSE <<model \in fallback_models>>

\* _is_openai_responses_api
_is_openai_responses_api(load, model) == IsOpenAIResponsesApiCall(load, model)[1]

\* ------------------------------------------------ model capability table
\* concurrent callers (request handlers, or coroutines sharing a service)
Tasks == {1, 2}
\* service t is the one constructed by the handler running as caller t
Services == Tasks

CfgModels == Models \cup {"gpt-3.5-turbo"}

Query(kind, provider, model) == [kind |-> kind, provider |-> provider, model |-> model]
NoQuery == Query("none", "openai", "gpt-4o")
Queries ==
    { Query("supports_streaming", p, m) : p \in {"openai", "anthropic"}, m \in CfgModels }
    \cup { Query("is_openai_responses_api", "openai", m) : m \in CfgModels }

\* the query's answer given what the load gave; <<>> when the query raises
QueryAnswer(q, load) ==
    IF q.kind = "supports_streaming"
    THEN SupportsStreamingCall(load, q.provider, q.model)
    ELSE IsOpenAIResponsesApiCall(load, q.model)

CfgInit ==
    /\ cfg_config = [s \in Services |-> <<>>]
    /\ cfg_pc = [t \in Tasks |-> "idle"]
    /\ cfg_svc = [t \in Tasks |-> t]
    /\ cfg_query = [t \in Tasks |-> NoQuery]
    /\ cfg_loaded = [t \in Tasks |-> <<>>]
    /\ cfg_answer = [t \in Tasks |-> <<>>]
    /\ cfg_raised = [t \in Tasks |-> FALSE]
    /\ cfg_fetches = 0
    /\ cfg_writes = <<>>

\* (mutant) the assignment keeps a value that is already there
AssignConfigIfUnset(config, s, table) ==
    IF config[s] = <<>> THEN [config EXCEPT ![s] = <<table>>] ELSE config

\* `self._models_config = response.json()`
AssignConfig(config, s, table) == [config EXCEPT ![s] = <<table>>]

\* caller t runs query q on service `config_s`: the query enters
\* _load_models_config, which returns the cached table at once or, when
\* _models_config is None, issues the GET and awaits it
CfgEnter(t, s, config_s, q) ==
    /\ cfg_svc' = [cfg_svc EXCEPT ![t] = s]
    /\ cfg_query' = [cfg_query EXCEPT ![t] = q]
    /\ cfg_raised' = [cfg_raised EXCEPT ![t] = FALSE]
    /\ IF config_s = <<>>
       THEN /\ cfg_fetches < MaxFetches
            /\ cfg_fetches' = cfg_fetches + 1
            /\ cfg_pc' = [cfg_pc EXCEPT ![t] = "fetching"]
            /\ cfg_loaded' = [cfg_loaded EXCEPT ![t] = <<>>]
            /\ cfg_answer' = [cfg_answer EXCEPT ![t] = <<>>]
       ELSE /\ cfg_fetches' = cfg_fetches
            /\ cfg_pc' = [cfg_pc EXCEPT ![t] = "answered"]
            /\ cfg_loaded' = [cfg_loaded EXCEPT ![t] = config_s]
            /\ cfg_answer' = [cfg_answer EXCEPT ![t] = QueryAnswer(q, config_s[1])]

\* a coroutine calls a capability query on the shared service 1
CfgQuery(t, q) ==
    /\ cfg_pc[t] = "idle"
    /\ CfgEnter(t, 1, cfg_config[1], q)
    /\ UNCHANGED <<cfg_config, cfg_writes>>

\* chat_completion / websocket_chat serve a request as caller t: a new
\* AIProviderService is constructed; only stream_completion with provider
\* "openai" queries the table (_supports_streaming)
CfgRequest(t, handler, provider, model) ==
    /\ cfg_pc[t] = "idle"
    /\ cfg_config' = [cfg_config EXCEPT ![t] = <<>>]
    /\ IF handler = "websocket_chat" /\ provider = "openai"
       THEN CfgEnter(t, t, <<>>, Query("supports_streaming", provider, model))
       ELSE /\ cfg_pc' = [cfg_pc EXCEPT ![t] = "answered"]
            /\ cfg_svc' = [cfg_svc EXCEPT ![t] = t]
            /\ cfg_query' = [cfg_query EXCEPT ![t] = NoQuery]
            /\ cfg_loaded' = [cfg_loaded EXCEPT ![t] = <<>>]
            /\ cfg_answer' = [cfg_answer EXCEPT ![t] = <<>>]
            /\ cfg_raised' = [cfg_raised EXCEPT ![t] = FALSE]
            /\ UNCHANGED cfg_fetches
    /\ UNCHANGED cfg_writes

\* the GET of caller t succeeds and parses: the table is assigned; leaving
\* `async with` awaits the client's close
CfgFetchOk(t, table) ==
    /\ cfg_pc[t] = "fetching"
    /\ cfg_config' = AssignConfig(cfg_config, cfg_svc[t], table)
    /\ cfg_writes' = Append(cfg_writes, <<cfg_svc[t], table>>)
    /\ cfg_pc' = [cfg_pc EXCEPT ![t] = "closing"]
    /\ UNCHANGED <<cfg_svc, cfg_query, cfg_loaded, cfg_answer, cfg_raised, cfg_fetches>>

\* the GET fails (network error, raise_for_status, response.json()): the
\* exception reaches the except clause of the query
CfgFetchFail(t) ==
    /\ cfg_pc[t] = "fetching"
    /\ LET a == QueryAnswer(cfg_query[t], ConfigFailed)
       IN  /\ cfg_answer' = [cfg_answer EXCEPT ![t] = a]
           /\ cfg_raised' = [cfg_raised EXCEPT ![t] = (a = <<>>)]
    /\ cfg_pc' = [cfg_pc EXCEPT ![t] = "answered"]
    /\ UNCHANGED <<cfg_config, cfg_svc, cfg_query, cfg_loaded, cfg_fetches, cfg_writes>>

\* `return self._models_config` after the client is closed; the query answers
CfgLoadReturn(t) ==
    /\ cfg_pc[t] = "closing"
    /\ LET c == cfg_config[cfg_svc[t]]
           a == QueryAnswer(cfg_query[t], c[1])
       IN  /\ cfg_loaded' = [cfg_loaded EXCEPT ![t] = c]
           /\ cfg_answer' = [cfg_answer EXCEPT ![t] = a]
           /\ cfg_raised' = [cfg_raised EXCEPT ![t] = (a = <<>>)]
    /\ cfg_pc' = [cfg_pc EXCEPT ![t] = "answered"]
    /\ UNCHANGED <<cfg_config, cfg_svc, cfg_query, cfg_fetches, cfg_writes>>

\* the caller is done with the answer
CfgFinish(t) ==
    /\ cfg_pc[t] = "answered"
    /\ cfg_pc' = [cfg_pc EXCEPT ![t] = "idle"]
    /\ cfg_query' = [cfg_query EXCEPT ![t] = NoQuery]
    /\ cfg_loaded' = [cfg_loaded EXCEPT ![t] = <<>>]
    /\ cfg_answer' = [cfg_answer EXCEPT ![t] = <<>>]
    /\ cfg_raised' = [cfg_raised EXCEPT ![t] = FALSE]
    /\ UNCHANGED <<cfg_config, cfg_svc, cfg_fetches, cfg_writes>>

Handlers == {"chat_completion", "websocket_chat"}

CfgSteps ==
    \/ \E t \in Tasks, table \in RemoteTables : CfgFetchOk(t, table)
    \/ \E t \in Tasks : CfgFetchFail(t)
    \/ \E t \in Tasks : CfgLoadReturn(t)
    \/ \E t \in Tasks : CfgFinish(t)

\* the process serving requests
ConfigNext ==
    \/ /\ \E t \in Tasks, h \in Handlers, p \in {"openai", "anthropic"}, m \in Models :
             CfgRequest(t, h, p, m)
       /\ UNCHANGED <<gcVars, chatVars, streamVars, rqVars, wsVars, ssVars, drVars>>
    \/ CfgSteps /\ UNCHANGED <<gcVars, chatVars, streamVars, rqVars, wsVars, ssVars, drVars>>

\* coroutines sharing one service
LoadNext ==
    \/ /\ \E t \in Tasks, q \in Queries : CfgQuery(t, q)
       /\ UNCHANGED <<gcVars, chatVars, streamVars, rqVars, wsVars, ssVars, drVars>>
    \/ CfgSteps /\ UNCHANGED <<gcVars, chatVars, streamVars, rqVars, wsVars, ssVars, drVars>>

\* ------------------------------------------------- provider request
\* texts are sequences of characters
Chars == {" ", "a", "\n"}
Texts == SeqsUpTo(Chars, MaxTextLen)

IsSpace(c) == c \in {" ", "\n"}

RECURSIVE LStrip(_)
LStrip(t) == IF t # <<>> /\ IsSpace(Head(t)) THEN LStrip(Tail(t)) ELSE t

RECURSIVE RStrip(_)
RStrip(t) ==
    IF t # <<>> /\ IsSpace(t[Len(t)]) THEN RStrip(SubSeq(t, 1, Len(t) - 1)) ELSE t

\* str.strip()
Strip(t) == RStrip(LStrip(t))

ModelsOf(provider) ==
    CASE provider = "openai" -> {"gpt-4o", "gpt-5", "o1"}
      [] provider = "anthropic" -> {"claude-sonnet-4"}
      [] provider = "google" -> {"gemini-2.0-flash"}
      [] provider = "openai_compatible" -> {"deepseek-chat"}

_is_gpt5_model(model) ==
    model \in {"gpt-5", "gpt-5-mini", "gpt-5-nano", "gpt-5-chat-latest"}

_is_thinking_model(model) ==
    model \in {"o1", "o1-preview", "o1-mini", "o1-pro", "o3", "o3-mini", "o3-pro",
               "o4-mini", "o4-mini-high"}

\* the timeout of the provider call, <<>> when none is set
CallTimeout(provider, model, thinking_mode, stream) ==
    CASE provider = "openai" /\ ~stream ->
           <<IF _is_gpt5_model(model) \/ thinking_mode
             THEN responses_api_timeout ELSE default_timeout>>
      [] provider = "google" /\ stream -> <<>>
      [] OTHER -> <<default_timeout>>

\* a tool configuration: a function, or an MCP server with its URL
Url(scheme, host) == [scheme |-> scheme, host |-> host]
ToolConfig(type, url) == [type |-> type, url |-> url]
ToolConfigs == {
    ToolConfig("function", <<>>),
    ToolConfig("mcp", <<Url("https", "remote")>>),
    ToolConfig("mcp", <<Url("http", "remote")>>),
    ToolConfig("mcp", <<Url("http", "localhost")>>),
    ToolConfig("mcp", <<>>) }

\* _validate_mcp_server_url (url is <<>> when empty)
_validate_mcp_server_url(url, provider) ==
    IF url = <<>> THEN FALSE
    ELSE IF provider = "anthropic" /\ url[1].scheme # "https" THEN FALSE
    ELSE IF provider = "openai"
            /\ ~(url[1].scheme = "https" \/ url[1].host = "localhost") THEN FALSE
    ELSE TRUE

\* _build_anthropic_mcp_server_config: the entry, and whether the URL
\* check logged an error
_build_anthropic_mcp_server_config(tool_config) ==
    [type |-> "url", url |-> tool_config.url,
     logged |-> tool_config.url # <<>>
                /\ ~_validate_mcp_server_url(tool_config.url, "anthropic")]

RECURSIVE McpServers(_)
\* tools_config["mcp_servers"] of _prepare_anthropic_tools_config
McpServers(tools) ==
    IF tools = <<>> THEN <<>>
    ELSE (IF Head(tools).type = "mcp"
          THEN <<_build_anthropic_mcp_server_config(Head(tools))>> ELSE <<>>)
         \o McpServers(Tail(tools))

\* _convert_message_to_gemini_parts of a text-only message
_convert_message_to_gemini_parts(content) ==
    LET parts == IF content # <<>> /\ Strip(content) # <<>> THEN <<content>> ELSE <<>>
    IN  IF parts # <<>> THEN parts ELSE <<content>>

\* the text sent for one text-only user message
RequestText(provider, model, thinking_mode, stream, content) ==
    CASE provider = "openai" /\ ~stream /\ _is_gpt5_model(model) /\ thinking_mode ->
           Strip(content \o <<"\n">>)
      [] provider = "google" -> _convert_message_to_gemini_parts(content)[1]
      [] OTHER -> content

\* the role sent with it: the text-mode input of the thinking path is a
\* bare string
RequestRole(provider, model, thinking_mode, stream) ==
    IF provider = "openai" /\ ~stream /\ _is_gpt5_model(model) /\ thinking_mode
    THEN <<>> ELSE <<"user">>

Payload(text, role, mcp_servers, timeout) ==
    [text |-> text, role |-> role, mcp_servers |-> mcp_servers, timeout |-> timeout]

\* base URLs a caller may supply with an OpenAI-compatible request
BaseUrls == {"https://llm.example/v1", "http://localhost:11434/v1"}

\* `if not base_url: base_url = "https://api.openai.com/v1"`
ClientBaseUrl(base_url) ==
    IF base_url = <<>> THEN "https://api.openai.com/v1" ELSE base_url[1]

\* the base_url the entry point hands to the OpenAI-compatible method:
\* get_completion passes its own; stream_completion has none to pass
CompatibleBaseUrlArg(stream, base_url) == IF stream THEN <<>> ELSE base_url

RqInit ==
    /\ rq_pc = "idle"
    /\ rq_provider = "openai"
    /\ rq_model = "gpt-4o"
    /\ rq_thinking = FALSE
    /\ rq_stream = FALSE
    /\ rq_text = <<>>
    /\ rq_tools = <<>>
    /\ rq_base_url = <<>>
    /\ rq_client = <<>>
    /\ rq_payload = Payload(<<>>, <<>>, <<>>, <<>>)
    /\ rq_result = <<>>

\* a provider method builds its request from one user message and issues it
RqSend(provider, model, thinking_mode, stream, content, tools, base_url) ==
    /\ rq_pc = "idle"
    /\ rq_provider' = provider
    /\ rq_model' = model
    /\ rq_thinking' = thinking_mode
    /\ rq_stream' = stream
    /\ rq_text' = content
    /\ rq_tools' = tools
    /\ rq_base_url' = base_url
    /\ rq_client' = IF provider = "openai_compatible"
                    THEN <<ClientBaseUrl(CompatibleBaseUrlArg(stream, base_url))>>
                    ELSE <<>>
    /\ rq_payload' = Payload(
          RequestText(provider, model, thinking_mode, stream, content),
          RequestRole(provider, model, thinking_mode, stream),
          IF provider = "anthropic" /\ ~stream THEN McpServers(tools) ELSE <<>>,
          CallTimeout(provider, model, thinking_mode, stream))
    /\ rq_result' = <<>>
    /\ rq_pc' = "sent"

\* the response of a backend that echoes the text it was sent
EchoResponse(provider, text) ==
    CASE provider = "openai" -> <<Item("message", text, NoCall, FALSE, FALSE)>>
      [] provider = "anthropic" -> AnthropicResponse(text, <<>>, "end_turn")
      [] provider = "google" -> GeminiResponse(text, <<>>, "STOP")
      [] provider = "openai_compatible" ->
           CompletionResult(<<Choice(Message(text, <<>>, "", <<>>, <<>>, <<>>), "stop")>>)

\* the echoing backend answers a non-streaming call; the method normalizes
RqEcho ==
    /\ rq_pc = "sent"
    /\ ~rq_stream
    /\ rq_result' = <<ProviderReturn(rq_provider, EchoResponse(rq_provider, rq_payload.text))>>
    /\ rq_pc' = "done"
    /\ UNCHANGED <<rq_provider, rq_model, rq_thinking, rq_stream, rq_text, rq_tools,
                   rq_base_url, rq_client, rq_payload>>

\* the call is over
RqReset ==
    /\ rq_pc \in {"sent", "done"}
    /\ rq_pc' = "idle"
    /\ rq_result' = <<>>
    /\ rq_payload' = Payload(<<>>, <<>>, <<>>, <<>>)
    /\ rq_provider' = "openai"
    /\ rq_model' = "gpt-4o"
    /\ rq_thinking' = FALSE
    /\ rq_stream' = FALSE
    /\ rq_text' = <<>>
    /\ rq_tools' = <<>>
    /\ rq_base_url' = <<>>
    /\ rq_client' = <<>>

RequestNext ==
    \/ /\ rq_pc = "idle"
       /\ \E p \in Providers : \E m \in ModelsOf(p), th \in BOOLEAN, st \in BOOLEAN,
                                  c \in Texts, tl \in SeqsUpTo(ToolConfigs, MaxTools),
                                  b \in {<<>>} \cup {<<u>> : u \in BaseUrls} :
             RqSend(p, m, th, st, c, tl, IF p = "openai_compatible" THEN b ELSE <<>>)
       /\ UNCHANGED <<gcVars, chatVars, streamVars, cfgVars, wsVars, ssVars, drVars>>
    \/ RqEcho /\ UNCHANGED <<gcVars, chatVars, streamVars, cfgVars, wsVars, ssVars, drVars>>
    \/ RqReset /\ UNCHANGED <<gcVars, chatVars, streamVars, cfgVars, wsVars, ssVars, drVars>>

\* A chunk: shape "delta" (choices[0].delta), "message" (a whole completion
\* result, choices[0].message) or "error" ({"error": ...}).  content,
\* reasoning and error hold at most one value; finish_reason "None" is unset.
Chunk(shape, content, reasoning, citations, finish_reason, error) ==
    [shape |-> shape, content |-> content, reasoning |-> reasoning,
     citations |-> citations, finish_reason |-> finish_reason, error |-> error]

TextChunk(text) == Chunk("delta", <<text>>, <<>>, <<>>, "None", <<>>)
ReasoningChunk(text) == Chunk("delta", <<>>, <<text>>, <<>>, "None", <<>>)
FinishChunk(finish_reason, citations) ==
    Chunk("delta", <<>>, <<>>, citations, finish_reason, <<>>)
ErrorChunk(text) == Chunk("error", <<>>, <<>>, <<>>, "None", <<text>>)
\* (mutant) the fallback result re-shaped as a text delta
ResultChunkAsDelta(result) == TextChunk(result.choices[1].message.content)

\* `yield response`: the whole get_completion result as one chunk
ResultChunk(result) ==
    Chunk("message", <<result.choices[1].message.content>>, <<>>, <<>>,
          result.choices[1].finish_reason, <<>>)

\* A provider event: OpenAI Responses event types, Anthropic event types
\* (content_block_delta split by delta.type), "chunk" for a Gemini or
\* Chat Completions chunk.
Event(type, text, stop) == [type |-> type, text |-> text, stop |-> stop]

OpenAIEvents == {
    Event("response.output_text.delta", "a", ""),
    Event("response.output_text.delta", "b", ""),
    Event("response.completed", "", ""),
    Event("response.failed", "", ""),
    Event("response.created", "", ""),
    Event("response.reasoning_summary_text.delta", "r", "") }

ignored_event_types == {
    "response.created", "response.in_progress", "response.output_item.added",
    "response.output_item.done", "response.content_part.added",
    "response.content_part.done", "response.output_text.done",
    "response.web_search_call.in_progress", "response.web_search_call.searching",
    "response.web_search_call.completed", "response.file_search_call.in_progress",
    "response.file_search_call.searching", "response.file_search_call.completed",
    "response.mcp_list_tools.in_progress", "response.mcp_list_tools.completed",
    "response.mcp_call.in_progress", "response.mcp_call_arguments.delta",
    "response.mcp_call_arguments.done", "response.mcp_call.completed" }

\* body of `async for event in stream` of _openai_stream_completion: the
\* chunks yielded for ev
OpenAIStreamYield(ev) ==
    CASE ev.type = "response.output_text.delta" -> <<TextChunk(ev.text)>>
      [] ev.type = "response.completed" -> <<FinishChunk("stop", <<>>)>>
      [] ev.type = "response.failed" -> <<ErrorChunk({"Unknown error"})>>
      [] ev.type \in ignored_event_types -> <<>>
      [] OTHER -> <<>>

AnthropicEvents == {
    Event("message_start", "", ""),
    Event("content_block_start", "", ""),
    Event("text_delta", "a", ""),
    Event("thinking_delta", "t", ""),
    Event("citations_delta", "c1", ""),
    Event("citations_delta", "c2", ""),
    Event("message_delta", "", "end_turn"),
    Event("message_stop", "", "") }

\* body of `async for event in stream` of _anthropic_stream_completion: the
\* chunks yielded for ev when current_citations is `citations`
AnthropicStreamYield(ev, thinking_mode, citations) ==
    CASE ev.type = "message_start" -> <<TextChunk("")>>
      [] ev.type = "text_delta" -> <<TextChunk(ev.text)>>
      [] ev.type = "thinking_delta" ->
           IF thinking_mode THEN <<ReasoningChunk(ev.text)>> ELSE <<>>
      [] ev.type = "message_delta" ->
           <<FinishChunk(_map_anthropic_stop_reason(ev.stop), citations)>>
      [] OTHER -> <<>>

\* (mutant) current_citations keeps only the latest citation
AnthropicCitationsLatest(ev, citations) ==
    IF ev.type = "citations_delta" THEN <<ev.text>> ELSE citations

\* current_citations after ev
AnthropicCitations(ev, citations) ==
    IF ev.type = "citations_delta" THEN Append(citations, ev.text) ELSE citations

\* Gemini chunks: text or no text
GoogleEvents == { Event("chunk", "a", ""), Event("chunk", "", "") }

\* body of `for chunk in response_stream` of _google_stream_completion_websocket
GoogleStreamYield(ev) ==
    IF ev.text # "" THEN <<TextChunk(ev.text)>> ELSE <<>>

\* Chat Completions chunks of an OpenAI-compatible server
CompatibleEvents == {
    Event("chunk", "a", "None"), Event("chunk", "b", "None"),
    Event("chunk", "", "stop") }

\* `yield chunk.model_dump()` of _openai_compatible_stream_completion
CompatibleStreamYield(ev) ==
    <<Chunk("delta", IF ev.text = "" THEN <<>> ELSE <<ev.text>>, <<>>, <<>>,
            ev.stop, <<>>)>>

ProviderEvents(provider) ==
    CASE provider = "openai" -> OpenAIEvents
      [] provider = "anthropic" -> AnthropicEvents
      [] provider = "google" -> GoogleEvents
      [] provider = "openai_compatible" -> CompatibleEvents
      [] OTHER -> {}

StreamYield(provider, ev, thinking_mode, citations) ==
    CASE provider = "openai" -> OpenAIStreamYield(ev)
      [] provider = "anthropic" -> AnthropicStreamYield(ev, thinking_mode, citations)
      [] provider = "google" -> GoogleStreamYield(ev)
      [] provider = "openai_compatible" -> CompatibleStreamYield(ev)

\* The except clauses of the provider's streaming method for exception e:
\* <<chunk yielded>>, or <<>> when no clause catches e.
ProviderStreamCatch(provider, e) ==
    CASE provider = "anthropic" ->
           IF e.cls = "AuthenticationError"
           THEN <<ErrorChunk({"anthropic api secret invalid-zh", "check your api secret-zh"})>>
           ELSE IF e.cls = "RateLimitError"
           THEN <<ErrorChunk({"anthropic api rate too high-zh", "retry later-zh"})>>
           ELSE <<ErrorChunk({"anthropic stream call failed"} \cup e.text)>>
      [] OTHER -> <<ErrorChunk(e.text)>>

\* (mutant) stream_completion without its except clause
OuterCatchNothing(e) == <<>>

\* `except Exception as e: yield {"error": str(e)}` of stream_completion
OuterCatch(e) == <<ErrorChunk(e.text)>>

\* stream_completion is called: choose the branch
StreamBegin(provider, model, thinking_mode, load) ==
    /\ st_pc = "idle"
    /\ gc_pc = "idle"
    /\ st_provider' = provider
    /\ st_model' = model
    /\ st_thinking' = thinking_mode
    /\ st_events' = <<>>
    /\ st_citations' = <<>>
    /\ st_chunks' = <<>>
    /\ st_failure' = <<>>
    /\ IF provider \in Providers
          /\ (provider = "openai" => _supports_streaming(load, provider, model))
       THEN /\ st_path' = "stream"
            /\ st_pc' = "open"
            /\ UNCHANGED gcVars
       ELSE /\ st_path' = "fallback"
            /\ st_pc' = "fallback"
            /\ GcBegin(provider)
    /\ UNCHANGED <<chatVars, extVars>>

\* the provider stream delivers ev; the loop body runs
StreamEvent(ev) ==
    /\ st_pc = "open"
    /\ Len(st_events) < MaxEvents
    /\ st_events' = Append(st_events, ev)
    /\ st_chunks' = st_chunks
                      \o StreamYield(st_provider, ev, st_thinking, st_citations)
    /\ st_citations' = IF st_provider = "anthropic"
                       THEN AnthropicCitations(ev, st_citations)
                       ELSE st_citations
    /\ st_pc' = IF st_provider = "anthropic" /\ ev.type = "message_stop"
                THEN "closed" ELSE "open"
    /\ UNCHANGED <<gcVars, chatVars, extVars, st_provider, st_model, st_thinking, st_path,
                   st_failure>>

\* the provider stream is exhausted; the method returns
StreamEnd ==
    /\ st_pc = "open"
    /\ st_chunks' = IF st_provider = "google"
                    THEN Append(st_chunks, FinishChunk("stop", <<>>))
                    ELSE st_chunks
    /\ st_pc' = "closed"
    /\ UNCHANGED <<gcVars, chatVars, extVars, st_provider, st_model, st_thinking, st_path,
                   st_events, st_citations, st_failure>>

\* exception e raised at a point of the generator whose innermost handlers
\* are `inner` then `outer` (each <<chunk>> or <<>>)
StreamCatch(inner, outer) ==
    /\ st_failure' = <<st_chunks>>
    /\ IF inner # <<>>
       THEN st_chunks' = st_chunks \o inner /\ st_pc' = "closed"
       ELSE IF outer # <<>>
       THEN st_chunks' = st_chunks \o outer /\ st_pc' = "closed"
       ELSE st_chunks' = st_chunks /\ st_pc' = "raised"

\* the SDK raises e (creating the stream or delivering the next event)
StreamRaise(e) ==
    /\ st_pc = "open"
    /\ StreamCatch(ProviderStreamCatch(st_provider, e), OuterCatch(e))
    /\ UNCHANGED <<gcVars, chatVars, extVars, st_provider, st_model, st_thinking, st_path,
                   st_events, st_citations>>

\* the get_completion of the non-streaming branch ended: yield its result, or
\* its exception reaches the except clause of stream_completion
StreamFallback ==
    /\ st_pc = "fallback"
    /\ gc_pc \in {"returned", "raised"}
    /\ GcReset
    /\ IF gc_pc = "returned"
       THEN /\ st_chunks' = Append(st_chunks, ResultChunk(gc_result[1]))
            /\ st_pc' = "closed"
            /\ UNCHANGED st_failure
       ELSE StreamCatch(<<>>, OuterCatch(gc_error[1]))
    /\ UNCHANGED <<chatVars, extVars, st_provider, st_model, st_thinking, st_path,
                   st_events, st_citations>>

StreamNext ==
    \/ /\ \E p \in ProviderIds, m \in Models, t \in BOOLEAN, l \in ConfigLoads :
             StreamBegin(p, m, t, l)
       /\ UNCHANGED <<wsVars, ssVars, drVars>>
    \/ (\E ev \in ProviderEvents(st_provider) : StreamEvent(ev)) /\ UNCHANGED <<wsVars, ssVars, drVars>>
    \/ StreamEnd /\ UNCHANGED <<wsVars, ssVars, drVars>>
    \/ (\E e \in SdkErrors : StreamRaise(e)) /\ UNCHANGED <<wsVars, ssVars, drVars>>
    \/ ChatAttempt /\ UNCHANGED <<chatVars, streamVars, extVars, wsVars, ssVars, drVars>>
    \/ GcAttemptUnsupported /\ UNCHANGED <<chatVars, streamVars, extVars, wsVars, ssVars, drVars>>
    \/ StreamFallback /\ UNCHANGED <<wsVars, ssVars, drVars>>

WsInit ==
    /\ ws_pc = "waiting"
    /\ ws_connected = TRUE
    /\ ws_active = TRUE
    /\ ws_taken = 0
    /\ ws_delivered = <<>>
    /\ ws_cut = <<>>

\* a message sent to the socket: a chunk of the response ("stream") or the
\* error message of the handler's except clause ("handler")
Sent(origin, chunk) == [origin |-> origin, chunk |-> chunk]

\* ws_cut once the client is gone or a send has failed
Cut == IF ws_cut = <<>> THEN <<Len(ws_delivered)>> ELSE ws_cut

\* (mutant) a failed send is swallowed inside the loop
SendFailedContinue == "streaming"

\* both except clauses of websocket_chat are outside `while True`: the
\* handler returns
SendFailed == "closed"

\* receive_text returns a chat request: stream_completion is called
WsReceive(provider, model, thinking_mode, load) ==
    /\ ws_pc = "waiting"
    /\ ws_connected
    /\ StreamBegin(provider, model, thinking_mode, load)
    /\ ws_pc' = "streaming"
    /\ UNCHANGED <<ws_connected, ws_active, ws_taken, ws_delivered, ws_cut>>

\* receive_text raises WebSocketDisconnect
WsReceiveDisconnect ==
    /\ ws_pc = "waiting"
    /\ ~ws_connected
    /\ ws_pc' = "closed"
    /\ ws_active' = FALSE
    /\ UNCHANGED <<ws_connected, ws_taken, ws_delivered, ws_cut>>

\* the generator runs up to its next yield or its end; it is resumed only
\* after the loop body has handled the chunk it yielded
WsGenerator ==
    /\ ws_pc = "streaming"
    /\ ws_taken = Len(st_chunks)
    /\ \/ \E ev \in ProviderEvents(st_provider) : StreamEvent(ev)
       \/ StreamEnd
       \/ \E e \in ChatSdkErrors : StreamRaise(e)
       \/ ChatAttempt /\ UNCHANGED <<chatVars, streamVars, extVars>>
       \/ StreamFallback
    /\ UNCHANGED wsVars

\* the loop body sends the chunk and the send succeeds
WsSend ==
    /\ ws_pc = "streaming"
    /\ ws_taken < Len(st_chunks)
    /\ ws_connected
    /\ ws_delivered' = Append(ws_delivered, Sent("stream", st_chunks[ws_taken + 1]))
    /\ ws_taken' = ws_taken + 1
    /\ UNCHANGED <<ws_pc, ws_connected, ws_active, ws_cut>>

\* the send raises `exc`; on WebSocketDisconnect the handler disconnects,
\* on another exception it first tries to send {"error": ...}, which gets
\* through (error_sent) only while the client is connected
WsSendRaises(exc, error_sent) ==
    /\ ws_pc = "streaming"
    /\ ws_taken < Len(st_chunks)
    /\ exc = "WebSocketDisconnect" => ~ws_connected
    /\ error_sent => (exc = "Exception" /\ ws_connected)
    /\ ws_cut' = Cut
    /\ ws_taken' = ws_taken + 1
    /\ ws_delivered' = IF error_sent /\ SendFailed = "closed"
                       THEN Append(ws_delivered, Sent("handler", ErrorChunk({"send failed"})))
                       ELSE ws_delivered
    /\ ws_pc' = SendFailed
    /\ ws_active' = (SendFailed # "closed")
    /\ UNCHANGED ws_connected

\* the response is over: back to receive_text
WsStreamOver ==
    /\ ws_pc = "streaming"
    /\ st_pc = "closed"
    /\ ws_taken = Len(st_chunks)
    /\ ws_pc' = "waiting"
    /\ UNCHANGED <<ws_connected, ws_active, ws_taken, ws_delivered, ws_cut>>

\* the client goes away
WsClientDisconnect ==
    /\ ws_connected
    /\ ws_pc # "closed"
    /\ ws_connected' = FALSE
    /\ ws_cut' = Cut
    /\ UNCHANGED <<ws_pc, ws_active, ws_taken, ws_delivered>>

WsNext ==
    \/ /\ ws_pc = "waiting"
       /\ \E p \in {"openai", "google"}, m \in Models, l \in ConfigLoads :
             WsReceive(p, m, FALSE, l)
       /\ UNCHANGED <<ssVars, drVars>>
    \/ WsReceiveDisconnect /\ UNCHANGED <<gcVars, chatVars, streamVars, extVars, ssVars, drVars>>
    \/ WsGenerator /\ UNCHANGED <<ssVars, drVars>>
    \/ WsSend /\ UNCHANGED <<gcVars, chatVars, streamVars, extVars, ssVars, drVars>>
    \/ /\ \E exc \in {"WebSocketDisconnect", "Exception"}, es \in BOOLEAN :
             WsSendRaises(exc, es)
       /\ UNCHANGED <<gcVars, chatVars, streamVars, extVars, ssVars, drVars>>
    \/ WsStreamOver /\ UNCHANGED <<gcVars, chatVars, streamVars, extVars, ssVars, drVars>>
    \/ WsClientDisconnect /\ UNCHANGED <<gcVars, chatVars, streamVars, extVars, ssVars, drVars>>

\* --------------------------------------------- a session of websocket_chat
SsInit ==
    /\ ss_inbox = <<>>
    /\ ss_sent = 0
    /\ ss_current = 0
    /\ ss_log = <<>>

\* a message of the client: a chat request or {"type": "heartbeat"}
ClientMessage(type, id) == [type |-> type, id |-> id]

\* an entry of ss_log: kind "read" (receive_text returned message msg),
\* "sent" (a message was sent while serving message msg) or "over" (the
\* `async for` of message msg ended)
Logged(kind, msg, type) == [kind |-> kind, msg |-> msg, type |-> type]

\* (mutant) the socket is read while a response is being streamed
CanReceiveWhileStreaming == ws_pc \in {"waiting", "streaming"}

\* receive_text is awaited only at the top of `while True`
CanReceive == ws_pc = "waiting"

\* the client sends a message; it waits in the socket until it is read
SsClientSend(type) ==
    /\ ws_connected
    /\ ws_pc # "closed"
    /\ ss_sent < MaxMessages
    /\ ss_sent' = ss_sent + 1
    /\ ss_inbox' = Append(ss_inbox, ClientMessage(type, ss_sent + 1))
    /\ UNCHANGED <<ss_current, ss_log>>

\* receive_text returns a heartbeat: the reply is sent and the loop continues;
\* a reply that cannot be sent ends the handler
SsHeartbeat ==
    /\ CanReceive
    /\ ss_inbox # <<>>
    /\ Head(ss_inbox).type = "heartbeat"
    /\ ss_inbox' = Tail(ss_inbox)
    /\ ss_current' = Head(ss_inbox).id
    /\ UNCHANGED <<ss_sent, ws_connected, ws_taken>>
    /\ IF ws_connected
       THEN /\ ss_log' = ss_log \o <<Logged("read", Head(ss_inbox).id, "heartbeat"),
                                     Logged("sent", Head(ss_inbox).id, "heartbeat")>>
            /\ ws_delivered' = Append(ws_delivered,
                                      Sent("handler", TextChunk("heartbeat")))
            /\ UNCHANGED <<ws_pc, ws_active, ws_cut>>
       ELSE /\ ss_log' = Append(ss_log, Logged("read", Head(ss_inbox).id, "heartbeat"))
            /\ ws_pc' = "closed"
            /\ ws_active' = FALSE
            /\ ws_cut' = Cut
            /\ UNCHANGED ws_delivered

\* receive_text returns a chat request: stream_completion is called
SsRequest(provider, model, thinking_mode, load) ==
    /\ CanReceive
    /\ ss_inbox # <<>>
    /\ Head(ss_inbox).type = "chat"
    /\ StreamBegin(provider, model, thinking_mode, load)
    /\ ws_pc' = "streaming"
    /\ ss_inbox' = Tail(ss_inbox)
    /\ ss_current' = Head(ss_inbox).id
    /\ ss_log' = Append(ss_log, Logged("read", Head(ss_inbox).id, "chat"))
    /\ UNCHANGED <<ss_sent, ws_connected, ws_active, ws_taken, ws_delivered, ws_cut>>

\* receive_text raises WebSocketDisconnect once nothing is left to read
SsReceiveDisconnect ==
    /\ ss_inbox = <<>>
    /\ WsReceiveDisconnect
    /\ UNCHANGED <<ssVars, drVars>>

\* the generator of a streaming provider runs up to its next yield or its
\* end; it is resumed only after the loop body has handled the chunk
SsGenerator ==
    /\ ws_pc = "streaming"
    /\ ws_taken = Len(st_chunks)
    /\ \/ \E ev \in ProviderEvents(st_provider) : StreamEvent(ev)
       \/ StreamEnd
       \/ \E e \in ChatSdkErrors : StreamRaise(e)
    /\ UNCHANGED <<wsVars, ssVars, drVars>>

\* the loop body sends a chunk of the current response
SsSend ==
    /\ WsSend
    /\ ss_log' = Append(ss_log, Logged("sent", ss_current, "chat"))
    /\ UNCHANGED <<ss_inbox, ss_sent, ss_current>>

\* the generator is exhausted: the `async for` ends, the generator is
\* dropped, and the loop goes back to receive_text
SsStreamOver ==
    /\ ws_pc = "streaming"
    /\ st_pc = "closed"
    /\ ws_taken = Len(st_chunks)
    /\ ws_pc' = "waiting"
    /\ ws_taken' = 0
    /\ st_pc' = "idle"
    /\ st_provider' = "openai"
    /\ st_model' = "gpt-4o"
    /\ st_thinking' = FALSE
    /\ st_path' = "stream"
    /\ st_events' = <<>>
    /\ st_citations' = <<>>
    /\ st_chunks' = <<>>
    /\ st_failure' = <<>>
    /\ ss_log' = Append(ss_log, Logged("over", ss_current, "chat"))
    /\ UNCHANGED <<ws_connected, ws_active, ws_delivered, ws_cut,
                   ss_inbox, ss_sent, ss_current>>

SessionNext ==
    \/ /\ \E t \in {"chat", "heartbeat"} : SsClientSend(t)
       /\ UNCHANGED <<gcVars, chatVars, streamVars, extVars, wsVars, drVars>>
    \/ SsHeartbeat /\ UNCHANGED <<gcVars, chatVars, streamVars, extVars, drVars>>
    \/ /\ CanReceive
       /\ \E l \in ConfigLoads : SsRequest("google", "gpt-4o", FALSE, l)
       /\ UNCHANGED drVars
    \/ SsReceiveDisconnect /\ UNCHANGED <<gcVars, chatVars, streamVars, extVars, drVars>>
    \/ SsGenerator
    \/ SsSend /\ UNCHANGED <<gcVars, chatVars, streamVars, extVars, drVars>>
    \/ /\ \E exc \in {"WebSocketDisconnect", "Exception"}, es \in BOOLEAN :
             WsSendRaises(exc, es)
       /\ UNCHANGED <<gcVars, chatVars, streamVars, extVars, ssVars, drVars>>
    \/ SsStreamOver /\ UNCHANGED <<gcVars, chatVars, extVars, drVars>>
    \/ WsClientDisconnect /\ UNCHANGED <<gcVars, chatVars, streamVars, extVars, ssVars, drVars>>

\* ------------------------------------------------ deep-research tasks
\* the id create_research_task gives the task
TaskId == "t1"

\* response.status of the Responses API ("unknown": any other value,
\* "none": an object without the attribute)
ResponseStatuses ==
    {"queued", "in_progress", "completed", "failed", "cancelled", "unknown", "none"}

\* text the response holds: none, a report, or a short request to clarify
ResponseTexts == {"", "report", "please clarify"}

Response(status, text) == [status |-> status, text |-> text]

Responses == { Response(st, t) : st \in ResponseStatuses, t \in ResponseTexts }

\* what _extract_research_result returns: <<text>> or <<>> (None)
_extract_research_result(response) ==
    IF response.text # "" THEN <<response.text>>
    ELSE CASE response.status = "completed" -> <<"completed but empty-zh">>
           [] response.status \in {"queued", "in_progress"} -> <<>>
           [] response.status \in {"failed", "cancelled"} -> <<"task failed-zh">>
           [] OTHER -> <<"could not extract-zh">>

\* an indicator phrase in the text, or a text shorter than 100 characters
\* (the notice of an empty completed response has exactly 100)
_needs_clarification(response) ==
    LET result_text == _extract_research_result(response)
    IN  /\ result_text # <<>>
        /\ result_text[1] \in {"please clarify", "task failed-zh", "could not extract-zh"}

DrInit ==
    /\ dr_pc = "none"
    /\ dr_storage = {}
    /\ dr_status = "running"
    /\ dr_result = <<>>
    /\ dr_response = Response("queued", "")
    /\ retry_count = 0
    /\ dr_stopped = <<>>
    /\ dr_deleted = FALSE

\* create_research_task: store the task as running, start the processing
create_research_task ==
    /\ dr_pc = "none"
    /\ dr_storage' = dr_storage \cup {TaskId}
    /\ dr_status' = "running"
    /\ dr_pc' = "create"
    /\ UNCHANGED <<dr_result, dr_response, retry_count, dr_stopped, dr_deleted>>

\* `self._tasks_storage[task.id] = task`
StoreTask == dr_storage \cup {TaskId}

\* _process_deep_research_task up to the polling loop: responses.create
\* returns `created` (<<response>>), or raises (<<>>) and the except clause
\* marks the task failed
ProcessCreate(created) ==
    /\ dr_pc = "create"
    /\ dr_storage' = StoreTask
    /\ IF created # <<>>
       THEN /\ dr_response' = created[1]
            /\ dr_pc' = "poll"
            /\ UNCHANGED <<dr_status, dr_result>>
       ELSE /\ dr_status' = "failed"
            /\ dr_result' = <<"error during research-zh">>
            /\ dr_pc' = "done"
            /\ UNCHANGED dr_response
    /\ UNCHANGED <<retry_count, dr_stopped, dr_deleted>>

\* the loop body ends the processing with the task in `status`
Finish(status, result) ==
    /\ dr_status' = status
    /\ dr_result' = result
    /\ dr_storage' = StoreTask
    /\ dr_pc' = "done"
    /\ UNCHANGED <<dr_response, retry_count>>

\* (mutant) waiting without counting the attempt
WaitedUncounted(n) == n

\* `await asyncio.sleep(5); retry_count += 1`
Waited(n) == n + 1

\* the loop body waits; `retrieved` is what the poll of the response gives
KeepWaiting(retrieved) ==
    /\ retry_count' = Waited(retry_count)
    /\ dr_response' = retrieved
    /\ UNCHANGED <<dr_status, dr_result, dr_storage, dr_pc>>

\* one iteration of `while retry_count < max_retries`; `retrieved` is the
\* outcome of responses.retrieve where the iteration polls: <<response>>, or
\* <<>> when it raises and the loop keeps the response it has
PollIteration(retrieved) ==
    /\ dr_pc = "poll"
    /\ retry_count < max_poll_retries
    /\ LET status == dr_response.status
           result_text == _extract_research_result(dr_response)
       IN  CASE status = "completed" ->
                  IF result_text # <<>>
                  THEN Finish(IF _needs_clarification(dr_response)
                              THEN "warning" ELSE "completed", result_text)
                  ELSE KeepWaiting(dr_response)
             [] status \in {"failed", "cancelled"} ->
                  Finish("failed", <<"task failed-zh">>)
             [] status \in {"queued", "in_progress"} ->
                  KeepWaiting(IF retrieved # <<>> THEN retrieved[1] ELSE dr_response)
             [] status = "unknown" -> KeepWaiting(dr_response)
             [] OTHER ->
                  IF result_text # <<>> /\ result_text[1] # "could not extract-zh"
                  THEN Finish("completed", result_text)
                  ELSE KeepWaiting(dr_response)
    /\ UNCHANGED <<dr_stopped, dr_deleted>>

\* after the loop: one last retrieve and extraction
PollTimeout(retrieved) ==
    /\ dr_pc = "poll"
    /\ ~(retry_count < max_poll_retries)
    /\ LET result_text == IF retrieved = <<>> THEN <<>>
                          ELSE _extract_research_result(retrieved[1])
       IN  /\ IF result_text # <<>>
              THEN dr_status' = "warning" /\ dr_result' = result_text
              ELSE dr_status' = "failed" /\ dr_result' = <<"timed out-zh">>
           /\ dr_response' = IF retrieved = <<>> THEN dr_response ELSE retrieved[1]
    /\ dr_storage' = StoreTask
    /\ dr_pc' = "done"
    /\ UNCHANGED <<retry_count, dr_stopped, dr_deleted>>

\* stop_task returns True
stop_task ==
    /\ TaskId \in dr_storage
    /\ dr_status \in {"running", "warning"}
    /\ dr_status' = "failed"
    /\ dr_stopped' = <<dr_result>>
    /\ UNCHANGED <<dr_pc, dr_storage, dr_result, dr_response, retry_count, dr_deleted>>

\* delete_task returns True
delete_task ==
    /\ TaskId \in dr_storage
    /\ dr_storage' = dr_storage \ {TaskId}
    /\ dr_deleted' = TRUE
    /\ UNCHANGED <<dr_pc, dr_status, dr_result, dr_response, retry_count, dr_stopped>>

Retrieved == {<<>>} \cup { <<r>> : r \in Responses }

\* the steps of the background coroutine
Background ==
    \/ \E c \in Retrieved : ProcessCreate(c)
    \/ /\ dr_pc = "poll"
       /\ \E r \in Retrieved : PollIteration(r)
    \/ /\ dr_pc = "poll"
       /\ \E r \in Retrieved : PollTimeout(r)

ResearchNext ==
    \/ create_research_task /\ UNCHANGED <<gcVars, chatVars, streamVars, extVars, wsVars, ssVars>>
    \/ Background /\ UNCHANGED <<gcVars, chatVars, streamVars, extVars, wsVars, ssVars>>
    \/ stop_task /\ UNCHANGED <<gcVars, chatVars, streamVars, extVars, wsVars, ssVars>>
    \/ delete_task /\ UNCHANGED <<gcVars, chatVars, streamVars, extVars, wsVars, ssVars>>

Init == GcInit /\ ChatInit /\ StreamInit /\ CfgInit /\ RqInit /\ WsInit /\ SsInit /\ DrInit

Next ==
    \/ \E p \in ProviderIds : Call(p) /\ UNCHANGED <<chatVars, streamVars, extVars, wsVars, ssVars, drVars>>
    \/ Attempt /\ UNCHANGED <<chatVars, streamVars, extVars, wsVars, ssVars, drVars>>
    \/ GcAttemptUnsupported /\ UNCHANGED <<chatVars, streamVars, extVars, wsVars, ssVars, drVars>>

Spec == Init /\ [][Next]_vars

ChatNext ==
    \/ \E p \in ProviderIds, t \in BOOLEAN : ChatRequest(p, t)
    \/ ChatAttempt /\ UNCHANGED <<chatVars, streamVars, extVars, wsVars, ssVars, drVars>>
    \/ GcAttemptUnsupported /\ UNCHANGED <<chatVars, streamVars, extVars, wsVars, ssVars, drVars>>
    \/ ChatInitialResponse
    \/ ToolRound
    \/ ToolReceive
    \/ ToolReturn

SpecChat == Init /\ [][ChatNext]_vars

SpecStream == Init /\ [][StreamNext]_vars

SpecConfig == Init /\ [][ConfigNext]_vars

SpecLoad == Init /\ [][LoadNext]_vars

SpecRequest == Init /\ [][RequestNext]_vars

SpecWs == Init /\ [][WsNext]_vars

SpecSession == Init /\ [][SessionNext]_vars

SpecResearch == Init /\ [][ResearchNext]_vars

\* the event loop resumes the background coroutine whenever its sleep or its
\* request (bounded by the client's timeout) is over
SpecResearchFair == SpecResearch /\ WF_drVars(Background)

\* ------------------------------------------------------------ claims
AllTimeouts(outcomes) ==
    \A i \in 1..Len(outcomes) : outcomes[i] = "TimeoutError"

C2_AuthCalledOnce ==
    (gc_outcomes # <<>> /\ gc_outcomes[1] = "AuthenticationError")
        => (gc_pc = "raised" /\ gc_calls = 1 /\ gc_sleeps = <<>>)

FinishReasons ==
    {"stop", "length", "tool_calls", "approval_required", "mcp_error", "content_filter"}

\* C4: the result get_completion returns has Choice[0].finish_reason in the
\* enumerated set.
C4_FinishReasonEnumerated ==
    gc_pc = "returned" => gc_result[1].choices[1].finish_reason \in FinishReasons

RetryableClasses ==
    {"TimeoutError", "RateLimitError", "InternalServerError", "APIConnectionError"}

\* C10: when all 3 attempts fail with a retryable error, the error raised
\* states the retry count and suggests retrying later.
C10_SynthesizedError ==
    (/\ gc_pc = "raised"
     /\ Len(gc_outcomes) = max_retries + 1
     /\ \A i \in 1..Len(gc_outcomes) : gc_outcomes[i] \in RetryableClasses)
        => {"retried max_retries times-zh", "retry later-zh"} \subseteq gc_error[1].text

\* C3 (as claimed): when every response carries pending tool calls, the
\* request is answered after exactly 10 calls of get_completion.
C3_TenCompletions ==
    (http_pc = "responded" /\ req_tools /\ all_pending) => completions = 10

\* C3 (amended): for a request that declares tools, when every response
\* carries pending tool calls the handler makes exactly 11 calls of
\* get_completion (the initial one and one per tool round, 10 rounds), then
\* returns the result of the last call; no request makes more than 11 calls.
C3_ElevenCompletions ==
    /\ completions <= 11
    /\ iteration <= 10
    /\ (http_pc = "responded" /\ req_tools /\ all_pending)
          => /\ completions = 11
             /\ iteration = 10
             /\ http_response = last_result
             /\ ToolCallsOf(http_response[1]) # <<>>

C3_Witness ==
    http_pc = "responded" /\ req_tools /\ all_pending /\ completions = 11

\* a call the loop cannot execute successfully
CallFails(tool_call) ==
    \/ tool_call.type # "function"
    \/ tool_call.arguments = "malformed"
    \/ tool_call.name \notin BuiltinFunctions

ErrorTexts ==
    {"Error executing function", "Error: Unsupported tool call type",
     "error-zh: Unknown function"}

\* C9: after the calls of a round have been handled, the messages appended
\* after the assistant message are one tool message per pending call, in call
\* order, each with the id of its call; a failing call's message holds an
\* error text and every other call's message holds its result.
C9_OneResultPerCall ==
    http_pc = "resubmit" =>
        LET calls == ToolCallsOf(current_response[1])
            results == Tail(appended)
        IN  /\ Len(results) = Len(calls)
            /\ \A i \in 1..Len(calls) :
                  /\ results[i].role = "tool"
                  /\ results[i].tool_call_id = calls[i].id
                  /\ (results[i].content \in ErrorTexts) = CallFails(calls[i])

C9_Witness ==
    /\ http_pc = "resubmit"
    /\ Len(appended) = 3
    /\ appended[2].content \in ErrorTexts
    /\ appended[3].content \notin ErrorTexts


\* ---------------------------------------------------- claims on streaming
IsError(c) == c.shape = "error"
IsDone(c) == c.shape # "error" /\ c.finish_reason # "None"
IsTerminal(c) == IsError(c) \/ IsDone(c)
IsTextDelta(c) ==
    c.shape = "delta" /\ c.content # <<>> /\ c.finish_reason = "None"
Terminals == { i \in 1..Len(st_chunks) : IsTerminal(st_chunks[i]) }
LastChunk == st_chunks[Len(st_chunks)]

\* C5: when the stream is over, exactly one terminal chunk (Done or Error)
\* was emitted, for every provider and every event sequence.
C5_ExactlyOneTerminal ==
    st_pc = "closed" => Cardinality(Terminals) = 1

C7_NeverRaises ==
    /\ st_pc # "raised"
    /\ st_failure # <<>> =>
          /\ st_pc = "closed"
          /\ Len(st_chunks) = Len(st_failure[1]) + 1
          /\ SubSeq(st_chunks, 1, Len(st_failure[1])) = st_failure[1]
          /\ IsError(LastChunk)

C7_Witness ==
    /\ st_failure # <<>> /\ st_path = "stream"
    /\ \E i \in 1..Len(st_failure[1]) : IsTextDelta(st_failure[1][i])
    /\ IsError(LastChunk)

\* the delta a provider event carries: its kind and payload
DeltaKind(ev) ==
    CASE ev.type \in {"response.output_text.delta", "text_delta"} -> "text"
      [] ev.type = "chunk" /\ ev.text # "" -> "text"
      [] ev.type = "thinking_delta" /\ st_thinking -> "reasoning"
      [] ev.type = "citations_delta" -> "citation"
      [] OTHER -> "none"

EventDeltas(events, kinds) ==
    SelectSeq([i \in 1..Len(events) |-> <<DeltaKind(events[i]), events[i].text>>],
              LAMBDA d : d[1] \in kinds)

\* the deltas one chunk carries
ChunkDeltas(c) ==
    (IF c.shape = "delta" /\ c.content # <<>> /\ c.content[1] # ""
     THEN << <<"text", c.content[1]>> >> ELSE <<>>)
    \o (IF c.reasoning # <<>> THEN << <<"reasoning", c.reasoning[1]>> >> ELSE <<>>)
    \o [i \in 1..Len(c.citations) |-> <<"citation", c.citations[i]>>]

RECURSIVE AllChunkDeltas(_)
AllChunkDeltas(chunks) ==
    IF chunks = <<>> THEN <<>>
    ELSE ChunkDeltas(Head(chunks)) \o AllChunkDeltas(Tail(chunks))

TextKinds == {"text", "reasoning"}
DeltaKinds == {"text", "reasoning", "citation"}

C11_FetchedOnce ==
    /\ cfg_fetches <= 1
    /\ \A i \in 1..Len(cfg_writes) : cfg_writes[i][2] = cfg_writes[1][2]

\* the answer of the hard-coded fallback tables
HardCodedAnswer(q) ==
    IF q.kind = "supports_streaming"
    THEN q.provider = "openai"
         /\ q.model \notin {"o1", "o1-preview", "o1-mini", "o3", "o3-mini", "o4-mini"}
    ELSE q.model \in fallback_models

\* C12: a capability query never raises; when the load of the table failed
\* (or gave JSON of the wrong shape) the caller still gets an answer, the
\* one of the hard-coded fallback table.
C12_FallbackAnswer ==
    \A t \in Tasks :
        /\ ~cfg_raised[t]
        /\ (cfg_pc[t] = "answered" /\ cfg_query[t] # NoQuery)
              => /\ cfg_answer[t] # <<>>
                 /\ (cfg_loaded[t] = <<>> \/ cfg_loaded[t] = <<ConfigMalformed>>)
                       => cfg_answer[t] = <<HardCodedAnswer(cfg_query[t])>>

C12_Witness ==
    \E t \in Tasks :
        /\ cfg_pc[t] = "answered" /\ cfg_loaded[t] = <<>> /\ cfg_fetches > 0
        /\ cfg_query[t] = Query("supports_streaming", "openai", "o1")
        /\ cfg_answer[t] = <<FALSE>>

\* C20: on a service shared by concurrent callers the table is unset until
\* the first assignment and afterwards always the complete value assigned
\* last (last writer wins); every caller whose load returned got a complete
\* table, one of those assigned.
C20_LastWriterWins ==
    /\ cfg_config[1] = (IF cfg_writes = <<>> THEN <<>>
                        ELSE <<cfg_writes[Len(cfg_writes)][2]>>)
    /\ \A i \in 1..Len(cfg_writes) :
          cfg_writes[i][1] = 1 /\ cfg_writes[i][2] \in RemoteTables
    /\ \A t \in Tasks :
          cfg_loaded[t] # <<>> =>
              /\ cfg_loaded[t][1] \in RemoteTables
              /\ \E i \in 1..Len(cfg_writes) : cfg_writes[i][2] = cfg_loaded[t][1]
    /\ \A t \in Tasks : cfg_pc[t] = "closing" => cfg_config[1] # <<>>

C20_Witness ==
    /\ \A t \in Tasks : cfg_pc[t] = "answered" /\ cfg_loaded[t] # <<>>
    /\ Len(cfg_writes) = 2
    /\ cfg_writes[1][2] # cfg_writes[2][2]
    /\ cfg_config[1] = <<cfg_writes[2][2]>>
    /\ cfg_loaded[1] = cfg_loaded[2]


\* ------------------------------------------- claims on request building
\* C13: no request issued to Anthropic carries an MCP server entry whose URL
\* is not https.
C13_NoInsecureMcpServer ==
    (rq_pc = "sent" /\ rq_provider = "anthropic")
        => \A i \in 1..Len(rq_payload.mcp_servers) :
              rq_payload.mcp_servers[i].url # <<>>
                  => rq_payload.mcp_servers[i].url[1].scheme = "https"

C15_TimeoutSelection ==
    rq_pc = "sent" =>
        rq_payload.timeout =
            <<IF rq_provider = "openai" \/ _is_thinking_model(rq_model)
              THEN responses_api_timeout ELSE default_timeout>>

\* whether an output array holds a segment of one of the types
HasItem(output, types) == \E i \in 1..Len(output) : output[i].type \in types
HasApproval(output) ==
    \E i \in 1..Len(output) :
        \/ output[i].type = "mcp_approval_request"
        \/ output[i].type = "mcp_call" /\ output[i].approval /\ ~output[i].error

\* C16: a Responses output array with an approval request and function
\* calls, in any order, is normalized to finish_reason approval_required.
C16_ApprovalPriority ==
    (/\ gc_pc = "returned" /\ gc_provider = "openai"
     /\ HasApproval(gc_response[1])
     /\ HasItem(gc_response[1], {"function_call"}))
        => gc_result[1].choices[1].finish_reason = "approval_required"

\* C17: every Responses output array is normalized to exactly one Choice
\* whose image_generations are the image-generation segments of the array,
\* all of them, in array order.
C17_ImagesKept ==
    (gc_pc = "returned" /\ gc_provider = "openai")
        => /\ Len(gc_result[1].choices) = 1
           /\ gc_result[1].choices[1].message.image_generations
                 = SelectSeq(gc_response[1], LAMBDA i : i.type = "image_generation_call")

C17_Witness ==
    /\ gc_pc = "returned" /\ gc_provider = "openai"
    /\ ~HasItem(gc_response[1], {"message"})
    /\ Len(gc_result[1].choices[1].message.image_generations) = 2
    /\ gc_result[1].choices[1].message.image_generations[1].text = "ig_2"
    /\ gc_result[1].choices[1].message.image_generations[2].text = "ig_1"

\* C18: the text of a text-only user message, echoed by the backend and
\* normalized, is the supplied text verbatim; the role sent is the
\* message's role.
C18_RoundTrip ==
    rq_pc = "done" =>
        /\ rq_result[1].choices[1].message.content = rq_text
        /\ rq_payload.role = <<"user">>
        /\ rq_result[1].choices[1].message.role = "assistant"


\* ------------------------------------------------ claims on the WebSocket
\* C19: once the client has disconnected or a send to the socket has failed,
\* no further chunk of the response is delivered to the socket: whatever is
\* delivered afterwards is at most the one error message of the handler.
C19_NoForwardAfterDisconnect ==
    ws_cut # <<>> =>
        /\ Len(ws_delivered) <= ws_cut[1] + 1
        /\ \A i \in (ws_cut[1] + 1)..Len(ws_delivered) : ws_delivered[i].origin = "handler"

C19_Witness ==
    /\ ws_cut # <<>> /\ ws_cut[1] >= 1
    /\ ~ws_connected
    /\ ws_pc = "closed"
    /\ Len(st_chunks) > ws_cut[1]
    /\ Len(ws_delivered) = ws_cut[1]

\* ------------------------------------------- claims on retry and backoff
RECURSIVE SumSeq(_)
SumSeq(s) == IF s = <<>> THEN 0 ELSE Head(s) + SumSeq(Tail(s))

\* C23: the k-th sleep of a call lasts 2^(k-1) seconds, whatever exception
\* was caught; there is exactly one sleep between two consecutive attempts,
\* none before the first attempt and none after the attempt that ends the
\* call; a call sleeps at most 3 seconds in total.
C23_ExponentialBackoff ==
    /\ Len(gc_sleeps) = gc_attempt
    /\ Len(gc_sleeps) <= max_retries
    /\ \A k \in 1..Len(gc_sleeps) : gc_sleeps[k] = 2 ^ (k - 1)
    /\ SumSeq(gc_sleeps) <= 3
    /\ gc_calls = 0 /\ gc_provider \in Providers => gc_sleeps = <<>>
    /\ gc_pc \in {"returned", "raised"} /\ gc_provider \in Providers
          => Len(gc_sleeps) = gc_calls - 1

C23_Witness ==
    /\ gc_pc = "raised"
    /\ gc_outcomes = <<"TimeoutError", "RateLimitError", "TimeoutError">>
    /\ gc_sleeps = <<1, 2>>

C26_FailedResubmissionReturnsLast ==
    [][ /\ (http_pc = "resubmit" /\ gc_pc = "raised")
            => /\ http_pc' = "break"
               /\ completions' = completions
               /\ current_response' = current_response
               /\ current_response' = last_result
               /\ ToolCallsOf(current_response'[1]) # <<>>
        /\ http_pc = "break"
            => /\ http_pc' = "responded"
               /\ completions' = completions
               /\ http_response' = current_response ]_vars

C26_Witness ==
    /\ http_pc = "responded"
    /\ req_tools
    /\ iteration = 1
    /\ completions = 3
    /\ http_response # <<>>
    /\ http_response = last_result
    /\ ToolCallsOf(http_response[1]) # <<>>


\* ------------------------------------------- claims on the chunks yielded
\* C21: every chunk yielded carries a provider delta (text, reasoning or
\* citation) or is terminal: an event without a delta yields no chunk.
C21_OnlyMeaningfulChunks ==
    \A i \in 1..Len(st_chunks) :
        ChunkDeltas(st_chunks[i]) # <<>> \/ IsTerminal(st_chunks[i])

\* C24: no chunk follows a Done chunk or an Error chunk.
C24_NothingAfterTerminal ==
    \A i \in 1..(Len(st_chunks) - 1) : ~IsTerminal(st_chunks[i])

\* ------------------------------------------ claims on the custom base URL
\* C22: whenever the caller supplies a base URL with an OpenAI-compatible
\* request, the client of the call, streaming or not, is constructed with
\* exactly that URL.
C22_ClientUsesSuppliedBaseUrl ==
    (rq_pc # "idle" /\ rq_provider = "openai_compatible" /\ rq_base_url # <<>>)
        => rq_client = rq_base_url

\* ------------------------------------------- claims on a WebSocket session
\* the message read last before position q of the log
LastRead(q) ==
    LET reads == { p \in 1..(q - 1) : ss_log[p].kind = "read" }
    IN  IF reads = {} THEN 0
        ELSE ss_log[CHOOSE p \in reads : \A r \in reads : r <= p].msg

\* C27: a session serves one message at a time. Everything sent belongs to
\* the message read last, so the chunks of two responses never interleave;
\* a message, chat request or heartbeat, is read only when the response
\* before it is over, all of its chunks sent; a heartbeat is answered right
\* after it is read, hence between responses.
C27_OneRequestAtATime ==
    /\ \A q \in 1..Len(ss_log) :
          /\ ss_log[q].kind \in {"sent", "over"} => ss_log[q].msg = LastRead(q)
          /\ (ss_log[q].kind = "read" /\ q > 1)
                => (ss_log[q - 1].kind = "over" \/ ss_log[q - 1].type = "heartbeat")
          /\ (ss_log[q].kind = "sent" /\ ss_log[q].type = "heartbeat")
                => ss_log[q - 1] = Logged("read", ss_log[q].msg, "heartbeat")
          /\ ss_log[q].kind = "over"
                => \A r \in (q + 1)..Len(ss_log) : ss_log[r].msg > ss_log[q].msg
    /\ ws_pc = "waiting" => (st_pc = "idle" /\ ws_taken = Len(st_chunks))

C27_Witness ==
    /\ Len(ss_log) >= 7
    /\ ss_log[1] = Logged("read", 1, "chat")
    /\ ss_log[2] = Logged("sent", 1, "chat")
    /\ ss_log[3] = Logged("sent", 1, "chat")
    /\ ss_log[4] = Logged("over", 1, "chat")
    /\ ss_log[5] = Logged("read", 2, "chat")
    /\ ss_log[6] = Logged("sent", 2, "chat")
    /\ ss_log[7] = Logged("over", 2, "chat")

\* ------------------------------------------ claims on deep-research tasks
\* C28: once stop_task has returned True, the task is never completed or
\* warning afterwards and its result is the one it had when it was stopped.
C28_StoppedStaysStopped ==
    dr_stopped # <<>> =>
        /\ dr_status \notin {"completed", "warning"}
        /\ dr_result = dr_stopped[1]

\* C29: once delete_task has returned True, the task id is not in the task
\* storage.
C29_DeletedStaysDeleted ==
    dr_deleted => TaskId \notin dr_storage

RunningStatuses == {"running"}
FinalStatuses == {"completed", "warning", "failed"}

\* C30: the polling loop runs at most max_poll_retries (120) iterations,
\* each polling the response at most once; a task is running only while its
\* processing is under way; the processing of every task created ends,
\* whatever the responses are, and leaves the task completed, warning or
\* failed.
C30_EventuallyLeavesRunning ==
    /\ [](retry_count <= max_poll_retries)
    /\ [](dr_status \in RunningStatuses => dr_pc # "done")
    /\ [](dr_pc = "done" => dr_status \in FinalStatuses)
    /\ (dr_pc \in {"create", "poll"}) ~> (dr_pc = "done" /\ dr_status \in FinalStatuses)

C30_Witness ==
    /\ dr_pc = "done"
    /\ retry_count = max_poll_retries
    /\ dr_response.status = "in_progress"
    /\ dr_status = "failed"
    /\ dr_result = <<"timed out-zh">>

====
